---- MODULE Spec2Model ----
(***************************************************************************)
(* termimad: compound styles, styled characters and the scrollable view    *)
(* driven by the interaction loop of examples/colored-template-scroll.     *)
(*                                                                         *)
(* Eight specifications share the variables below; each leaves the          *)
(* variables of the other parts at their initial value.                    *)
(*   Spec       run_app of examples/colored-template-scroll/main.rs        *)
(*   SpecView   the scroll operations of a TextView over fixed heights     *)
(*   SpecStyle  CompoundStyle values merged by overwrite_with              *)
(*   SpecFmt    CompoundStyle::repeat_string and repeat_space              *)
(*   SpecQueue  CompoundStyle::queue_fg and queue_bg                       *)
(*   SpecSet    the setters of CompoundStyle and StyledChar                *)
(*   SpecArea   Area::pad                                                  *)
(*   SpecChar   StyledChar: constructors, mutators, queue, queue_repeat    *)
(***************************************************************************)
EXTENDS Integers, Sequences, FiniteSets, TLC

VARIABLES
    \* ---- run_app (main.rs) ----
    pc,              \* position in run_app
    term,            \* <<width, height>> the terminal reports now
    overflow_checks, \* TRUE: debug build (u16 underflow panics), FALSE: release (wraps)
    area,            \* the local `area`
    content_height,  \* number of lines of `fmt_text`
    view_scroll,     \* view.scroll
    scroll,          \* the local `scroll`
    alt_screen,      \* the terminal shows the alternate screen
    cursor_hidden,   \* the terminal hides the cursor
    raw_mode,        \* the guard `_raw` is alive
    session,         \* the alternate screen was entered and the cursor hidden
    result,          \* what run_app returned: "none", "ok", "err", "panic"
    \* ---- CompoundStyle / StyledChar ----
    styles,          \* the CompoundStyle values A, B, C
    orig,            \* their values at construction
    ops,             \* the overwrite_with calls made so far, <<receiver, other>>
    sc,              \* the StyledChar
    w,               \* the io::Write writer: the commands queued on it
    f,               \* the fmt::Formatter: the styled writes made on it
    last             \* the last operation called, with its arguments

vars == <<pc, term, overflow_checks, area, content_height, view_scroll, scroll,
          alt_screen, cursor_hidden, raw_mode, session, result,
          styles, orig, ops, sc, w, f, last>>

appVars   == <<pc, term, overflow_checks, area, content_height, view_scroll, scroll,
               alt_screen, cursor_hidden, raw_mode, session, result>>
styleVars == <<styles, orig, ops>>

-----------------------------------------------------------------------------
(* Bounds of the model *)

\* largest count given to repeat_string, repeated and queue_repeat
MaxCount == 2
\* most commands queued on a writer in one run
MaxWrites == 2
\* most writes on the writer and the formatter of a StyledChar in one run
MaxQueued == 1
\* most overwrite_with calls in one run
MaxOps == 2
\* longest run of try_scroll_pages(1) calls that is counted
MaxRun == 6
\* number of characters of the document the example formats
DocLen == 24
\* most pad calls on one area
MaxPads == 2
\* longest attribute list add_attr is called on
MaxAttrs == 2

-----------------------------------------------------------------------------
(* CompoundStyle  (src/src/compound_style.rs) *)

None == "None"
Colors == {"Red", "Blue"}
Attributes == {"Bold", "Italic"}
Chars == {"x", "y"}

Range(s) == {s[i] : i \in DOMAIN s}

\* CompoundStyle::new: the crossterm ContentStyle it wraps
new(foreground_color, background_color, attributes) ==
    [foreground_color |-> foreground_color,
     background_color |-> background_color,
     attributes       |-> attributes]

\* CompoundStyle::default
default == new(None, None, <<>>)

\* Option::or
or(a, b) == IF a # None THEN a ELSE b

with_fg(fg) == new(fg, None, <<>>)
with_bg(bg) == new(None, bg, <<>>)
with_fgbg(fg, bg) == new(fg, bg, <<>>)

\* a plausible slip: the style is rebuilt from the colour alone
set_fg_resetting(self, color) ==
    [foreground_color |-> color, background_color |-> None, attributes |-> <<>>]

set_fg(self, color) == [self EXCEPT !.foreground_color = color]
set_bg(self, color) == [self EXCEPT !.background_color = color]
set_fgbg(self, fg, bg) == [self EXCEPT !.foreground_color = fg, !.background_color = bg]
add_attr(self, attr) == [self EXCEPT !.attributes = Append(@, attr)]

with_attr(attr) == add_attr(default, attr)

\* a plausible slip: the receiver keeps its own colour where it has one
overwrite_with_left_biased(self, other) ==
    [foreground_color |-> or(self.foreground_color, other.foreground_color),
     background_color |-> or(self.background_color, other.background_color),
     attributes       |-> self.attributes \o other.attributes]

\* a plausible slip: the attributes of other replace those of the receiver
overwrite_with_replacing_attrs(self, other) ==
    [foreground_color |-> or(other.foreground_color, self.foreground_color),
     background_color |-> or(other.background_color, self.background_color),
     attributes       |-> other.attributes]

\* the receiver after self.overwrite_with(&other)
overwrite_with(self, other) ==
    [foreground_color |-> or(other.foreground_color, self.foreground_color),
     background_color |-> or(other.background_color, self.background_color),
     attributes       |-> self.attributes \o other.attributes]

\* the StyledContent of val under the style; content is the text val displays
\* as, a sequence of characters (one character for a char)
apply_to(self, val) == [style |-> self, content |-> val]

RECURSIVE repeat(_, _)
\* str::repeat
repeat(s, count) == IF count = 0 THEN <<>> ELSE s \o repeat(s, count - 1)

\* one write on a writer or formatter: it is appended when the stream accepts
\* it, and the call fails with the stream unchanged when the stream rejects it
write(stream, item, accepts) ==
    IF accepts
    THEN [out |-> Append(stream, item), res |-> "Ok"]
    ELSE [out |-> stream, res |-> "Err"]

\* a plausible slip: the guard on count is missing
repeat_string_unguarded(self, fmt, s, count, accepts) ==
    write(fmt, apply_to(self, repeat(s, count)), accepts)

\* self.repeat_string(f, s, count): the formatter's writes and the fmt::Result
repeat_string(self, fmt, s, count, accepts) ==
    IF count > 0
    THEN write(fmt, apply_to(self, repeat(s, count)), accepts)
    ELSE [out |-> fmt, res |-> "Ok"]

repeat_space(self, fmt, count, accepts) == repeat_string(self, fmt, <<" ">>, count, accepts)

\* the commands the queue! macro puts on the writer
PrintStyledContent(styled) == [cmd |-> "PrintStyledContent", arg |-> styled]
SetForegroundColor(color) == [cmd |-> "SetForegroundColor", arg |-> [color |-> color]]
SetBackgroundColor(color) == [cmd |-> "SetBackgroundColor", arg |-> [color |-> color]]

\* self.queue(w, val): the writer's commands and the Result
queue(self, writer, val, accepts) ==
    write(writer, PrintStyledContent(apply_to(self, val)), accepts)

queue_str(self, writer, s, accepts) == queue(self, writer, s, accepts)

\* a plausible slip: an absent colour is queued as a reset to the default
queue_fg_resetting(self, writer, accepts) ==
    IF self.foreground_color # None
    THEN write(writer, SetForegroundColor(self.foreground_color), accepts)
    ELSE write(writer, SetForegroundColor("Reset"), accepts)

queue_fg(self, writer, accepts) ==
    IF self.foreground_color # None
    THEN write(writer, SetForegroundColor(self.foreground_color), accepts)
    ELSE [out |-> writer, res |-> "Ok"]

queue_bg(self, writer, accepts) ==
    IF self.background_color # None
    THEN write(writer, SetBackgroundColor(self.background_color), accepts)
    ELSE [out |-> writer, res |-> "Ok"]

-----------------------------------------------------------------------------
(* StyledChar  (src/src/styled_char.rs) *)

StyledChar_new(compound_style, nude_char) ==
    [compound_style |-> compound_style,
     nude_char      |-> nude_char,
     styled_char    |-> apply_to(compound_style, <<nude_char>>)]

from_fg_char(fg, nude_char) == StyledChar_new(with_fg(fg), nude_char)

style_char(self, nude_char) == StyledChar_new(self, nude_char)

\* a plausible slip: the cached form is not recomputed
set_char_stale(self, nude_char) == [self EXCEPT !.nude_char = nude_char]

set_char(self, nude_char) ==
    [self EXCEPT !.nude_char = nude_char,
                 !.styled_char = apply_to(self.compound_style, <<nude_char>>)]

StyledChar_set_fg(self, color) ==
    LET style == set_fg(self.compound_style, color)
    IN  [self EXCEPT !.compound_style = style,
                     !.styled_char = apply_to(style, <<self.nude_char>>)]

set_compound_style(self, compound_style) ==
    [self EXCEPT !.compound_style = compound_style,
                 !.styled_char = apply_to(compound_style, <<self.nude_char>>)]

RECURSIVE push_n(_, _, _)
\* the loop `for _ in 0..count { s.push(c) }`
push_n(s, c, count) == IF count = 0 THEN s ELSE push_n(Append(s, c), c, count - 1)

\* the StyledContent<String> self.repeated(count) returns
repeated(self, count) == apply_to(self.compound_style, push_n(<<>>, self.nude_char, count))

\* self.queue_repeat(w, count): the writer's commands and the Result
queue_repeat(self, writer, count, accepts) ==
    queue(self.compound_style, writer, push_n(<<>>, self.nude_char, count), accepts)

\* self.queue(w): the writer's commands and the Result
StyledChar_queue(self, writer, accepts) ==
    write(writer, PrintStyledContent(self.styled_char), accepts)

\* a plausible slip: Display writes the bare character, without its style
StyledChar_fmt_nude(self, fmt, accepts) ==
    write(fmt, apply_to(default, <<self.nude_char>>), accepts)

\* Display::fmt(self, f): the formatter's writes and the fmt::Result
StyledChar_fmt(self, fmt, accepts) == write(fmt, self.styled_char, accepts)

-----------------------------------------------------------------------------
(* Area and TextView: the crate's area.rs and text_view.rs, as the         *)
(* specification describes them                                            *)

Min(a, b) == IF a < b THEN a ELSE b
Max(a, b) == IF a > b THEN a ELSE b

\* Area::full_screen: the terminal's dimensions now
full_screen(dims) == [left |-> 0, top |-> 0, width |-> dims[1], height |-> dims[2]]

\* a plausible slip: the u16 subtraction wraps instead of saturating
pad_wrapping(self, dx, dy) ==
    [left   |-> self.left + dx,
     top    |-> self.top + dy,
     width  |-> (self.width - 2 * dx) % 65536,
     height |-> (self.height - 2 * dy) % 65536]

\* the area after self.pad(dx, dy)
pad(self, dx, dy) ==
    [left   |-> self.left + dx,
     top    |-> self.top + dy,
     width  |-> Max(0, self.width - 2 * dx),
     height |-> Max(0, self.height - 2 * dy)]

\* the number of lines of FmtText::from_text(skin, doc, Some(width)): the
\* document wrapped to width columns
from_text(width) == IF width = 0 THEN DocLen ELSE (DocLen + width - 1) \div width

max_offset(height, viewport_height) == Max(0, height - viewport_height)

clamp(x, lo, hi) == Max(lo, Min(x, hi))

\* a plausible slip: the lower bound is not applied
try_scroll_lines_no_floor(offset, delta, height, viewport_height) ==
    Min(offset + delta, max_offset(height, viewport_height))

\* a plausible slip: the upper bound is not applied
try_scroll_lines_no_ceiling(offset, delta, height, viewport_height) ==
    Max(offset + delta, 0)

\* view.scroll after view.try_scroll_lines(delta)
try_scroll_lines(offset, delta, height, viewport_height) ==
    clamp(offset + delta, 0, max_offset(height, viewport_height))

\* a plausible slip: a page is taken to be the content, not the viewport
try_scroll_pages_by_content(offset, delta, height, viewport_height) ==
    try_scroll_lines(offset, delta * height, height, viewport_height)

\* view.scroll after view.try_scroll_pages(delta)
try_scroll_pages(offset, delta, height, viewport_height) ==
    try_scroll_lines(offset, delta * viewport_height, height, viewport_height)

-----------------------------------------------------------------------------
(* Values of the variables a specification does not use *)

NoCall == [op |-> "none"]
NoChar == [compound_style |-> default, nude_char |-> "x",
           styled_char |-> apply_to(default, <<"x">>)]
StyleNames == {"A", "B", "C"}

AppIdle ==
    /\ pc = "idle"
    /\ term = <<0, 0>>
    /\ overflow_checks = FALSE
    /\ area = full_screen(<<0, 0>>)
    /\ content_height = 0
    /\ view_scroll = 0
    /\ scroll = 0
    /\ alt_screen = FALSE
    /\ cursor_hidden = FALSE
    /\ raw_mode = FALSE
    /\ session = FALSE
    /\ result = "none"

StylesIdle ==
    /\ styles = [n \in StyleNames |-> default]
    /\ orig = styles
    /\ ops = <<>>

WritersIdle ==
    /\ sc = NoChar
    /\ w = <<>>
    /\ f = <<>>

-----------------------------------------------------------------------------
(* SpecView: a TextView over a fixed area and fixed content, scrolled by   *)
(* arbitrary deltas                                                        *)

ViewportHeights == {0, 1, 4, 20}
ContentHeights == {0, 3, 10, 100}
Deltas == {-1000, -3, -1, 0, 1, 2, 1000}

InitView ==
    /\ pc = "view"
    /\ term = <<0, 0>>
    /\ overflow_checks = FALSE
    /\ \E h \in ViewportHeights : area = [left |-> 0, top |-> 0, width |-> 10, height |-> h]
    /\ content_height \in ContentHeights
    /\ view_scroll = 0
    /\ scroll = 0
    /\ alt_screen = FALSE
    /\ cursor_hidden = FALSE
    /\ raw_mode = FALSE
    /\ session = FALSE
    /\ result = "none"
    /\ StylesIdle
    /\ WritersIdle
    /\ last = [op |-> "from", delta |-> 0, before |-> 0, again |-> FALSE, run |-> 0]

\* the run of try_scroll_pages(1) calls made since the view was built
NextRun(op, delta) ==
    IF op = "try_scroll_pages" /\ delta = 1 /\ last.run >= 0
    THEN Min(last.run + 1, MaxRun)
    ELSE -1

ViewScrollLines(delta) ==
    /\ pc = "view"
    /\ view_scroll' = try_scroll_lines(view_scroll, delta, content_height, area.height)
    /\ last' = [op |-> "try_scroll_lines", delta |-> delta, before |-> view_scroll,
                again |-> (last.op = "try_scroll_lines" /\ last.delta = delta),
                run |-> NextRun("try_scroll_lines", delta)]
    /\ UNCHANGED <<pc, term, overflow_checks, area, content_height, scroll, alt_screen,
                   cursor_hidden, raw_mode, session, result, styles, orig, ops, sc, w, f>>

ViewScrollPages(delta) ==
    /\ pc = "view"
    /\ view_scroll' = try_scroll_pages(view_scroll, delta, content_height, area.height)
    /\ last' = [op |-> "try_scroll_pages", delta |-> delta, before |-> view_scroll,
                again |-> (last.op = "try_scroll_pages" /\ last.delta = delta),
                run |-> NextRun("try_scroll_pages", delta)]
    /\ UNCHANGED <<pc, term, overflow_checks, area, content_height, scroll, alt_screen,
                   cursor_hidden, raw_mode, session, result, styles, orig, ops, sc, w, f>>

NextView ==
    \/ \E delta \in Deltas : ViewScrollLines(delta)
    \/ \E delta \in Deltas : ViewScrollPages(delta)

SpecView == InitView /\ [][NextView]_vars

\* the largest offset of the view in this state, written out
LargestOffset ==
    IF content_height > area.height THEN content_height - area.height ELSE 0

\* C1: from offset 0 and for fixed content and viewport heights, after any
\* sequence of try_scroll_lines and try_scroll_pages calls with positive, zero
\* or negative deltas the offset lies in [0, max_offset], also when the call
\* repeats the delta of the call before it.
C1_OffsetInBounds ==
    pc = "view" => (0 <= view_scroll /\ view_scroll <= LargestOffset)

\* a delta far past the upper bound was applied a second time, from the
\* offset the first call had clamped
C1_Witness ==
    /\ pc = "view"
    /\ last.op = "try_scroll_lines"
    /\ last.delta = 1000
    /\ last.again
    /\ LargestOffset > 0
    /\ last.before = LargestOffset
    /\ view_scroll = LargestOffset

\* C2: try_scroll_lines(delta) sets the offset to clamp(offset + delta, 0,
\* max_offset): it moves by delta when that stays in range, saturates at 0 or
\* at max_offset otherwise, never moves down for a negative delta nor up for a
\* positive one.
C2_ScrollLinesClamps ==
    (pc = "view" /\ last.op = "try_scroll_lines") =>
        LET target == last.before + last.delta
        IN  /\ (0 <= target /\ target <= LargestOffset) => view_scroll = target
            /\ target < 0 => view_scroll = 0
            /\ target > LargestOffset => view_scroll = LargestOffset
            /\ last.delta < 0 => view_scroll <= last.before
            /\ last.delta > 0 => view_scroll >= last.before

\* offset 50, try_scroll_lines(-1000) gave offset 0
C2_Witness ==
    /\ pc = "view"
    /\ last.op = "try_scroll_lines"
    /\ last.before = 50
    /\ last.delta = -1000
    /\ view_scroll = 0

\* C3: try_scroll_pages(delta) leaves the offset where
\* try_scroll_lines(delta * viewport_height) would; with 100 lines in a
\* viewport of 20, k calls of try_scroll_pages(1) from offset 0 give offset
\* 20 * k up to 80 and stay at 80 from then on.
C3_PagesAreViewportLines ==
    (pc = "view" /\ last.op = "try_scroll_pages") =>
        /\ view_scroll = try_scroll_lines(last.before, last.delta * area.height,
                                          content_height, area.height)
        /\ (content_height = 100 /\ area.height = 20 /\ last.run >= 0) =>
               view_scroll = (IF last.run <= 4 THEN 20 * last.run ELSE 80)

\* the sixth try_scroll_pages(1) over 100 lines in a viewport of 20
C3_Witness ==
    /\ pc = "view"
    /\ content_height = 100
    /\ area.height = 20
    /\ last.op = "try_scroll_pages"
    /\ last.run = 6
    /\ last.before = 80
    /\ view_scroll = 80

-----------------------------------------------------------------------------
(* SpecStyle: three CompoundStyle values merged into one another           *)

AttrLists == {<<>>, <<"Bold">>, <<"Italic">>}

\* the styles CompoundStyle::new is called with
StyleSet ==
    {new(fg, bg, attrs) : fg \in Colors \cup {None}, bg \in {None, "Red"}, attrs \in AttrLists}

\* the overwrite_with calls made, <<receiver, other>>
Merges == {<<"A", "B">>, <<"A", "C">>, <<"B", "C">>}

InitStyle ==
    /\ AppIdle
    /\ styles \in [StyleNames -> StyleSet]
    /\ orig = styles
    /\ ops = <<>>
    /\ WritersIdle
    /\ last = [op |-> "new", self |-> "A", other |-> "A", before |-> styles]

\* styles[self].overwrite_with(&styles[other])
OverwriteWith(self, other) ==
    /\ pc = "idle"
    /\ Len(ops) < MaxOps
    /\ styles' = [styles EXCEPT ![self] = overwrite_with(styles[self], styles[other])]
    /\ ops' = Append(ops, <<self, other>>)
    /\ last' = [op |-> "overwrite_with", self |-> self, other |-> other, before |-> styles]
    /\ UNCHANGED <<appVars, orig, sc, w, f>>

NextStyle == \E m \in Merges : OverwriteWith(m[1], m[2])

SpecStyle == InitStyle /\ [][NextStyle]_vars

\* how often x occurs in the list s
Count(s, x) == Cardinality({i \in DOMAIN s : s[i] = x})

\* C6: after A.overwrite_with(B), each colour of A is that of B if B has one
\* and A's previous one otherwise, every attribute A had and every attribute
\* of B is still in A as often as before, and B is unchanged.
C6_OverwriteIsRightBiased ==
    last.op = "overwrite_with" =>
        LET A0 == last.before[last.self]
            B  == last.before[last.other]
            A1 == styles[last.self]
        IN  /\ A1.foreground_color =
                   (IF B.foreground_color # None THEN B.foreground_color
                                                 ELSE A0.foreground_color)
            /\ A1.background_color =
                   (IF B.background_color # None THEN B.background_color
                                                 ELSE A0.background_color)
            /\ \A x \in Attributes :
                   /\ Count(A1.attributes, x) >= Count(A0.attributes, x)
                   /\ Count(A1.attributes, x) >= Count(B.attributes, x)
            /\ styles[last.other] = B

\* a merge where B gives the foreground, A keeps its background and both
\* bring an attribute
C6_Witness ==
    /\ last.op = "overwrite_with"
    /\ last.before[last.self].foreground_color = "Red"
    /\ last.before[last.other].foreground_color = "Blue"
    /\ last.before[last.self].background_color = "Red"
    /\ last.before[last.other].background_color = None
    /\ last.before[last.self].attributes = <<"Bold">>
    /\ last.before[last.other].attributes = <<"Italic">>
    /\ styles[last.self] = new("Blue", "Red", <<"Bold", "Italic">>)

\* the colour of the layering A < B < C
Layered(a, b, c) == IF c # None THEN c ELSE IF b # None THEN b ELSE a

\* C7: A.overwrite_with(B) then A.overwrite_with(C) gives the layering
\* A < B < C (each colour is C's if present, else B's, else A's; the
\* attributes are those of all three), and it is what merging C into B first
\* and that into A gives.
C7_OverwriteIsAssociative ==
    LET A == orig["A"]
        B == orig["B"]
        C == orig["C"]
    IN  /\ ops = << <<"A", "B">>, <<"A", "C">> >> =>
               /\ styles["A"].foreground_color =
                      Layered(A.foreground_color, B.foreground_color, C.foreground_color)
               /\ styles["A"].background_color =
                      Layered(A.background_color, B.background_color, C.background_color)
               /\ Range(styles["A"].attributes) =
                      Range(A.attributes) \cup Range(B.attributes) \cup Range(C.attributes)
               /\ styles["A"] = overwrite_with(A, overwrite_with(B, C))
        /\ ops = << <<"B", "C">>, <<"A", "B">> >> =>
               styles["A"] = overwrite_with(overwrite_with(A, B), C)

\* three layers where C gives the background, B the foreground over A's
C7_Witness ==
    /\ ops = << <<"A", "B">>, <<"A", "C">> >>
    /\ orig["A"] = new("Red", "Red", <<"Bold">>)
    /\ orig["B"] = new("Blue", None, <<"Italic">>)
    /\ orig["C"] = new(None, "Red", <<"Bold">>)
    /\ styles["A"] = new("Blue", "Red", <<"Bold", "Italic", "Bold">>)

-----------------------------------------------------------------------------
(* SpecFmt: a CompoundStyle writing repeated strings on a fmt::Formatter   *)

Strs == {<<>>, <<"a">>, <<"a", "b">>}
Counts == 0 .. MaxCount

InitFmt ==
    /\ AppIdle
    /\ \E s \in StyleSet : styles = [n \in StyleNames |-> IF n = "A" THEN s ELSE default]
    /\ orig = styles
    /\ ops = <<>>
    /\ WritersIdle
    /\ last = [op |-> "new", s |-> <<>>, count |-> 0, before |-> <<>>, res |-> "Ok"]

\* styles["A"].repeat_string(f, s, count)
RepeatString(s, count, accepts) ==
    /\ pc = "idle"
    /\ Len(f) < MaxWrites
    /\ LET r == repeat_string(styles["A"], f, s, count, accepts)
       IN  /\ f' = r.out
           /\ last' = [op |-> "repeat_string", s |-> s, count |-> count,
                       before |-> f, res |-> r.res]
    /\ UNCHANGED <<appVars, styleVars, sc, w>>

\* styles["A"].repeat_space(f, count)
RepeatSpace(count, accepts) ==
    /\ pc = "idle"
    /\ Len(f) < MaxWrites
    /\ LET r == repeat_space(styles["A"], f, count, accepts)
       IN  /\ f' = r.out
           /\ last' = [op |-> "repeat_space", s |-> <<" ">>, count |-> count,
                       before |-> f, res |-> r.res]
    /\ UNCHANGED <<appVars, styleVars, sc, w>>

NextFmt ==
    \/ \E s \in Strs, count \in Counts, accepts \in BOOLEAN : RepeatString(s, count, accepts)
    \/ \E count \in Counts, accepts \in BOOLEAN : RepeatSpace(count, accepts)

SpecFmt == InitFmt /\ [][NextFmt]_vars

\* text is s written count times over
IsRepetition(text, s, count) ==
    /\ Len(text) = count * Len(s)
    /\ \A i \in DOMAIN text : text[i] = s[((i - 1) % Len(s)) + 1]

\* C9: repeat_string and repeat_space make no write and succeed when count is
\* 0; for count > 0 they make exactly one styled write, of s (a space)
\* repeated count times under the style, or fail with nothing written when
\* the formatter rejects the write.
C9_RepeatIsOneWrite ==
    last.op \in {"repeat_string", "repeat_space"} =>
        /\ last.op = "repeat_space" => last.s = <<" ">>
        /\ last.count = 0 => (f = last.before /\ last.res = "Ok")
        /\ (last.count > 0 /\ last.res = "Ok") =>
               /\ Len(f) = Len(last.before) + 1
               /\ SubSeq(f, 1, Len(last.before)) = last.before
               /\ f[Len(f)].style = styles["A"]
               /\ IsRepetition(f[Len(f)].content, last.s, last.count)
        /\ (last.count > 0 /\ last.res = "Err") => f = last.before

\* repeat_string(f, "ab", 2) wrote "abab" once, after an earlier write
C9_Witness ==
    /\ last.op = "repeat_string"
    /\ last.s = <<"a", "b">>
    /\ last.count = 2
    /\ last.res = "Ok"
    /\ Len(last.before) = 1
    /\ Len(f) = 2
    /\ f[2].content = <<"a", "b", "a", "b">>

\* repeat_space(f, 0) wrote nothing and succeeded
C9_WitnessZero ==
    /\ last.op = "repeat_space"
    /\ last.count = 0
    /\ last.res = "Ok"
    /\ f = last.before

-----------------------------------------------------------------------------
(* SpecChar: a StyledChar mutated and rendered                             *)

\* the styles a StyledChar is given
CharStyles == {default, new("Red", "Red", <<"Bold">>)}

\* the characters given to the set_char calls made in a row just before now,
\* renders apart: the last two of them
Recent(op, c) ==
    CASE op = "set_char" ->
             IF Len(last.recent) < 2 THEN Append(last.recent, c)
             ELSE <<last.recent[2], c>>
      [] op \in {"queue", "fmt", "queue_repeat", "repeated"} -> last.recent
      [] OTHER -> <<>>

Called(op, c, count, res, value) ==
    [op |-> op, count |-> count, res |-> res, recent |-> Recent(op, c),
     w |-> w, f |-> f, value |-> value]

NoValue == apply_to(default, <<>>)

InitChar ==
    /\ AppIdle
    /\ StylesIdle
    /\ \E s \in CharStyles, c \in Chars : sc = StyledChar_new(s, c)
    /\ w = <<>>
    /\ f = <<>>
    /\ last = [op |-> "new", count |-> 0, res |-> "Ok", recent |-> <<>>,
               w |-> <<>>, f |-> <<>>, value |-> NoValue]

\* sc = StyledChar::new(compound_style, nude_char)
New(compound_style, nude_char) ==
    /\ pc = "idle"
    /\ sc' = StyledChar_new(compound_style, nude_char)
    /\ last' = Called("new", nude_char, 0, "Ok", NoValue)
    /\ UNCHANGED <<appVars, styleVars, w, f>>

\* sc = StyledChar::from_fg_char(fg, nude_char)
FromFgChar(fg, nude_char) ==
    /\ pc = "idle"
    /\ sc' = from_fg_char(fg, nude_char)
    /\ last' = Called("from_fg_char", nude_char, 0, "Ok", NoValue)
    /\ UNCHANGED <<appVars, styleVars, w, f>>

\* sc.set_char(nude_char)
SetChar(nude_char) ==
    /\ pc = "idle"
    /\ sc' = set_char(sc, nude_char)
    /\ last' = Called("set_char", nude_char, 0, "Ok", NoValue)
    /\ UNCHANGED <<appVars, styleVars, w, f>>

\* sc.set_fg(color)
SetFg(color) ==
    /\ pc = "idle"
    /\ sc' = StyledChar_set_fg(sc, color)
    /\ last' = Called("set_fg", sc.nude_char, 0, "Ok", NoValue)
    /\ UNCHANGED <<appVars, styleVars, w, f>>

\* sc.set_compound_style(compound_style)
SetCompoundStyle(compound_style) ==
    /\ pc = "idle"
    /\ sc' = set_compound_style(sc, compound_style)
    /\ last' = Called("set_compound_style", sc.nude_char, 0, "Ok", NoValue)
    /\ UNCHANGED <<appVars, styleVars, w, f>>

\* sc.repeated(count)
Repeated(count) ==
    /\ pc = "idle"
    /\ last' = Called("repeated", sc.nude_char, count, "Ok", repeated(sc, count))
    /\ UNCHANGED <<appVars, styleVars, sc, w, f>>

\* sc.queue_repeat(w, count)
QueueRepeat(count, accepts) ==
    /\ pc = "idle"
    /\ Len(w) + Len(f) < MaxQueued
    /\ LET r == queue_repeat(sc, w, count, accepts)
       IN  /\ w' = r.out
           /\ last' = Called("queue_repeat", sc.nude_char, count, r.res, NoValue)
    /\ UNCHANGED <<appVars, styleVars, sc, f>>

\* sc.queue(w)
Queue(accepts) ==
    /\ pc = "idle"
    /\ Len(w) + Len(f) < MaxQueued
    /\ LET r == StyledChar_queue(sc, w, accepts)
       IN  /\ w' = r.out
           /\ last' = Called("queue", sc.nude_char, 1, r.res, NoValue)
    /\ UNCHANGED <<appVars, styleVars, sc, f>>

\* write!(f, "{}", sc)
Fmt(accepts) ==
    /\ pc = "idle"
    /\ Len(w) + Len(f) < MaxQueued
    /\ LET r == StyledChar_fmt(sc, f, accepts)
       IN  /\ f' = r.out
           /\ last' = Called("fmt", sc.nude_char, 1, r.res, NoValue)
    /\ UNCHANGED <<appVars, styleVars, sc, w>>

NextChar ==
    \/ \E s \in CharStyles, c \in Chars : New(s, c)
    \/ \E fg \in Colors, c \in Chars : FromFgChar(fg, c)
    \/ \E c \in Chars : SetChar(c)
    \/ \E color \in Colors : SetFg(color)
    \/ \E s \in CharStyles : SetCompoundStyle(s)
    \/ \E count \in Counts : Repeated(count)
    \/ \E count \in Counts, accepts \in BOOLEAN : QueueRepeat(count, accepts)
    \/ \E accepts \in BOOLEAN : Queue(accepts)
    \/ \E accepts \in BOOLEAN : Fmt(accepts)

SpecChar == InitChar /\ [][NextChar]_vars

\* the current style applied to the current character, written out
Fresh == [style |-> sc.compound_style, content |-> <<sc.nude_char>>]

\* C5: after any sequence of new, from_fg_char, set_char, set_fg and
\* set_compound_style the cached styled form is the current style applied to
\* the current character, so a queue or a Display right after a mutation
\* shows that mutation: after set_char('x') then set_char('y') it shows 'y'.
C5_CacheInSync ==
    /\ sc.styled_char = Fresh
    /\ (last.op = "queue" /\ last.res = "Ok") =>
           (Len(w) > 0 /\ w[Len(w)] = [cmd |-> "PrintStyledContent", arg |-> Fresh])
    /\ (last.op = "fmt" /\ last.res = "Ok") => (Len(f) > 0 /\ f[Len(f)] = Fresh)
    /\ (last.op \in {"queue", "fmt"} /\ last.res = "Ok" /\ last.recent # <<>>) =>
           LET shown == IF last.op = "queue" THEN w[Len(w)].arg ELSE f[Len(f)]
           IN  shown.content = <<last.recent[Len(last.recent)]>>

\* set_char('x'), set_char('y') on a coloured StyledChar, then queue: 'y'
C5_Witness ==
    /\ last.op = "queue"
    /\ last.res = "Ok"
    /\ last.recent = <<"x", "y">>
    /\ sc.compound_style.foreground_color = "Red"
    /\ w[Len(w)].arg.content = <<"y">>

\* C8: queue_repeat with count 0 leaves the writer as it was; with count
\* n > 0 it queues one PrintStyledContent of the character n times under the
\* style, whatever the cached form. repeated(count) is the text of count
\* characters under the style.
C8_RepeatWritesNothingForZero ==
    /\ (last.op = "queue_repeat" /\ last.res = "Ok") =>
           IF last.count = 0
           THEN w = last.w
           ELSE /\ Len(w) = Len(last.w) + 1
                /\ w[Len(w)].cmd = "PrintStyledContent"
                /\ w[Len(w)].arg.style = sc.compound_style
                /\ w[Len(w)].arg.content = [i \in 1 .. last.count |-> sc.nude_char]
    /\ last.op = "repeated" =>
           /\ last.value.style = sc.compound_style
           /\ last.value.content = [i \in 1 .. last.count |-> sc.nude_char]
           /\ w = last.w /\ f = last.f

\* C18: whatever constructors and mutators made the StyledChar, Display
\* writes the styled content that queue hands to PrintStyledContent: both
\* render the cached styled single character.
C18_DisplayIsQueue ==
    /\ (last.op = "queue" /\ last.res = "Ok") =>
           /\ Len(w) = Len(last.w) + 1
           /\ w[Len(w)] = PrintStyledContent(StyledChar_fmt(sc, <<>>, TRUE).out[1])
           /\ w[Len(w)].arg = sc.styled_char
    /\ (last.op = "fmt" /\ last.res = "Ok") =>
           /\ Len(f) = Len(last.f) + 1
           /\ PrintStyledContent(f[Len(f)]) = StyledChar_queue(sc, <<>>, TRUE).out[1]
           /\ f[Len(f)] = sc.styled_char
           /\ Len(f[Len(f)].content) = 1

\* a red-on-red bold StyledChar given a blue foreground, then displayed
C18_Witness ==
    /\ last.op = "fmt"
    /\ last.res = "Ok"
    /\ sc.compound_style = new("Blue", "Red", <<"Bold">>)
    /\ f = <<apply_to(new("Blue", "Red", <<"Bold">>), <<sc.nude_char>>)>>

-----------------------------------------------------------------------------
(* Spec: run_app of examples/colored-template-scroll/main.rs, from the     *)
(* entry of the alternate screen on                                        *)

\* the <<width, height>> the terminal may report
TermSizes == {<<2, 6>>, <<8, 3>>, <<8, 6>>, <<8, 8>>, <<12, 3>>, <<12, 6>>}

\* what events.next() may give: the four navigation keys, another key, an
\* event that is no key, and the end of the stream
Events == {"Up", "Down", "PageUp", "PageDown", "OtherKey", "Mouse", "NoEvent"}

TwoPow16 == 65536

\* `area.width - 1` on the u16 width panics: the width is 0 and the build
\* checks overflow
underflows(a) == a.width < 1 /\ overflow_checks

\* `(area.width - 1) as usize` on the u16 width, where it does not panic
wrap_width(a) == (a.width - 1) % TwoPow16

\* view.write_on(w), as the specification describes it: the lines
\* [offset, offset + viewport_height) are rendered, the offset is left alone
write_on_advancing(offset, viewport_height, accepts) ==
    [scroll |-> offset + viewport_height,
     lines  |-> <<offset, offset + viewport_height>>,
     res    |-> IF accepts THEN "Ok" ELSE "Err"]

write_on(offset, viewport_height, accepts) ==
    [scroll |-> offset,
     lines  |-> <<offset, offset + viewport_height>>,
     res    |-> IF accepts THEN "Ok" ELSE "Err"]

\* what run_app has done so far, kept in `last`:
\*   event      the last event events.next() gave
\*   offset     view.scroll when that event had been handled
\*   before     view.scroll when the last write_on was called
\*   rendered   the lines <<first, end>> the last successful write_on rendered
\*   unflushed  a write_on succeeded since the last flush
\*   flushes    the flushes of the frame so far
\*   wrap       the wrap width the last FmtText::from_text was given
\*   rejected   the position of the call that failed, if one did
Started ==
    [event |-> "none", offset |-> 0, before |-> 0, rendered |-> <<0, 0>>,
     unflushed |-> FALSE, flushes |-> 0, wrap |-> 0, rejected |-> "none"]

Init ==
    /\ pc = "enter"
    /\ term \in TermSizes
    /\ overflow_checks \in BOOLEAN
    /\ area = full_screen(<<0, 0>>)
    /\ content_height = 0
    /\ view_scroll = 0
    /\ scroll = 0
    /\ alt_screen = FALSE
    /\ cursor_hidden = FALSE
    /\ raw_mode = FALSE
    /\ session = FALSE
    /\ result = "none"
    /\ StylesIdle
    /\ WritersIdle
    /\ last = Started

\* run_app returns res; the guard `_raw`, if alive, is dropped
Return(res) ==
    /\ pc' = "returned"
    /\ result' = res
    /\ raw_mode' = FALSE

\* the `?` on a call that failed at position `at`
Fail(at) ==
    /\ Return("err")
    /\ last' = [last EXCEPT !.rejected = at]

\* line 53: queue!(w, EnterAlternateScreen)?
EnterAlternateScreen(accepts) ==
    /\ pc = "enter"
    /\ IF accepts
       THEN alt_screen' = TRUE /\ pc' = "raw" /\ UNCHANGED <<result, raw_mode, last>>
       ELSE Fail("enter") /\ UNCHANGED alt_screen
    /\ UNCHANGED <<term, overflow_checks, area, content_height, view_scroll, scroll,
                   cursor_hidden, session, styles, orig, ops, sc, w, f>>

\* line 54: let _raw = RawScreen::into_raw_mode()?
IntoRawMode(ok) ==
    /\ pc = "raw"
    /\ IF ok
       THEN raw_mode' = TRUE /\ pc' = "hide" /\ UNCHANGED <<result, last>>
       ELSE Fail("raw")
    /\ UNCHANGED <<term, overflow_checks, area, content_height, view_scroll, scroll,
                   alt_screen, cursor_hidden, session, styles, orig, ops, sc, w, f>>

\* line 55: queue!(w, Hide)?
Hide(accepts) ==
    /\ pc = "hide"
    /\ IF accepts
       THEN /\ cursor_hidden' = TRUE
            /\ session' = TRUE
            /\ pc' = "setup"
            /\ UNCHANGED <<result, raw_mode, last>>
       ELSE Fail("hide") /\ UNCHANGED <<cursor_hidden, session>>
    /\ UNCHANGED <<term, overflow_checks, area, content_height, view_scroll, scroll,
                   alt_screen, styles, orig, ops, sc, w, f>>

\* lines 58-61 and 67-70: the area, the formatted text and the view are built
\* from the terminal's dimensions now; a fresh view has scroll 0
Build(then, offset) ==
    LET a == pad(full_screen(term), 1, 1)
    IN  /\ area' = a
        /\ IF underflows(a)
           THEN Return("panic") /\ UNCHANGED <<content_height, view_scroll, last>>
           ELSE /\ content_height' = from_text(wrap_width(a))
                /\ view_scroll' = offset
                /\ pc' = then
                /\ last' = [last EXCEPT !.wrap = wrap_width(a), !.flushes = 0]
                /\ UNCHANGED <<result, raw_mode>>

\* lines 57-62: the first area, text and view, and `let mut scroll = 0`
Setup ==
    /\ pc = "setup"
    /\ Build("loop", 0)
    /\ scroll' = 0
    /\ UNCHANGED <<term, overflow_checks, alt_screen, cursor_hidden, session,
                   styles, orig, ops, sc, w, f>>

\* a plausible slip: line 71 is missing, the fresh view keeps scroll 0
Rebuild_without_scroll ==
    /\ pc = "loop"
    /\ Build("write1", 0)
    /\ UNCHANGED <<term, overflow_checks, scroll, alt_screen, cursor_hidden, session,
                   styles, orig, ops, sc, w, f>>

\* lines 67-71: the frame's area, text and view, and `view.scroll = scroll`
Rebuild ==
    /\ pc = "loop"
    /\ Build("write1", scroll)
    /\ UNCHANGED <<term, overflow_checks, scroll, alt_screen, cursor_hidden, session,
                   styles, orig, ops, sc, w, f>>

\* a plausible slip: the error of the call is dropped and the frame goes on
WriterStep_dropping_error(at, then, accepts, offset, done) ==
    /\ pc = at
    /\ view_scroll' = offset
    /\ pc' = then
    /\ last' = IF accepts THEN done ELSE [done EXCEPT !.rejected = at]
    /\ UNCHANGED <<term, overflow_checks, area, content_height, scroll, alt_screen,
                   cursor_hidden, raw_mode, session, result, styles, orig, ops, sc, w, f>>

\* a step of the frame that only writes: it goes on, or `?` returns the error;
\* offset is view.scroll after the call, done is what the call has done
WriterStep(at, then, accepts, offset, done) ==
    /\ pc = at
    /\ view_scroll' = offset
    /\ IF accepts
       THEN pc' = then /\ last' = done /\ UNCHANGED <<result, raw_mode>>
       ELSE Return("err") /\ last' = [done EXCEPT !.rejected = at]
    /\ UNCHANGED <<term, overflow_checks, area, content_height, scroll,
                   alt_screen, cursor_hidden, session, styles, orig, ops, sc, w, f>>

\* what a write_on call at this point has done
Written(r) ==
    IF r.res = "Ok"
    THEN [last EXCEPT !.before = view_scroll, !.rendered = r.lines, !.unflushed = TRUE]
    ELSE [last EXCEPT !.before = view_scroll]

\* line 72: view.write_on(&mut w)?
WriteOn(accepts) ==
    LET r == write_on(view_scroll, area.height, accepts)
    IN  WriterStep("write1", "flush", accepts, r.scroll, Written(r))

\* line 73: w.flush()?
Flush(accepts) ==
    WriterStep("flush", "write2", accepts, view_scroll,
               IF accepts
               THEN [last EXCEPT !.unflushed = FALSE, !.flushes = @ + 1]
               ELSE last)

\* line 75: view.write_on(&mut w)?
WriteOnAgain(accepts) ==
    LET r == write_on(view_scroll, area.height, accepts)
    IN  WriterStep("write2", "event", accepts, r.scroll, Written(r))

\* lines 76-84: the next event; a navigation key scrolls the view, another
\* key breaks the loop, anything else goes on to line 86
NextEvent(e) ==
    /\ pc = "event"
    /\ view_scroll' =
           CASE e = "Up" -> try_scroll_lines(view_scroll, -1, content_height, area.height)
             [] e = "Down" -> try_scroll_lines(view_scroll, 1, content_height, area.height)
             [] e = "PageUp" -> try_scroll_pages(view_scroll, -1, content_height, area.height)
             [] e = "PageDown" -> try_scroll_pages(view_scroll, 1, content_height, area.height)
             [] OTHER -> view_scroll
    /\ pc' = IF e = "OtherKey" THEN "show" ELSE "store"
    /\ last' = [last EXCEPT !.event = e, !.offset = view_scroll']
    /\ UNCHANGED <<term, overflow_checks, area, content_height, scroll, alt_screen,
                   cursor_hidden, raw_mode, session, result, styles, orig, ops, sc, w, f>>

\* line 86: scroll = view.scroll
Store ==
    /\ pc = "store"
    /\ scroll' = view_scroll
    /\ pc' = "loop"
    /\ UNCHANGED <<term, overflow_checks, area, content_height, view_scroll, alt_screen,
                   cursor_hidden, raw_mode, session, result, styles, orig, ops, sc, w, f, last>>

\* line 88: queue!(w, Show)?
Show(accepts) ==
    /\ pc = "show"
    /\ IF accepts
       THEN cursor_hidden' = FALSE /\ pc' = "leave" /\ UNCHANGED <<result, raw_mode, last>>
       ELSE Fail("show") /\ UNCHANGED cursor_hidden
    /\ UNCHANGED <<term, overflow_checks, area, content_height, view_scroll, scroll,
                   alt_screen, session, styles, orig, ops, sc, w, f>>

\* line 89: queue!(w, LeaveAlternateScreen)?
LeaveAlternateScreen(accepts) ==
    /\ pc = "leave"
    /\ IF accepts
       THEN alt_screen' = FALSE /\ pc' = "last_flush" /\ UNCHANGED <<result, raw_mode, last>>
       ELSE Fail("leave") /\ UNCHANGED alt_screen
    /\ UNCHANGED <<term, overflow_checks, area, content_height, view_scroll, scroll,
                   cursor_hidden, session, styles, orig, ops, sc, w, f>>

\* lines 90-91: w.flush()?; Ok(())
LastFlush(accepts) ==
    /\ pc = "last_flush"
    /\ IF accepts
       THEN Return("ok") /\ UNCHANGED last
       ELSE Fail("last_flush")
    /\ UNCHANGED <<term, overflow_checks, area, content_height, view_scroll, scroll,
                   alt_screen, cursor_hidden, session, styles, orig, ops, sc, w, f>>

\* the user resizes the terminal
Resize(dims) ==
    /\ pc \in {"loop", "write1", "flush", "write2", "event", "store"}
    /\ dims # term
    /\ term' = dims
    /\ UNCHANGED <<pc, overflow_checks, area, content_height, view_scroll, scroll,
                   alt_screen, cursor_hidden, raw_mode, session, result,
                   styles, orig, ops, sc, w, f, last>>

Next ==
    \/ \E accepts \in BOOLEAN : EnterAlternateScreen(accepts)
    \/ \E ok \in BOOLEAN : IntoRawMode(ok)
    \/ \E accepts \in BOOLEAN : Hide(accepts)
    \/ Setup
    \/ Rebuild
    \/ \E accepts \in BOOLEAN : WriteOn(accepts)
    \/ \E accepts \in BOOLEAN : Flush(accepts)
    \/ \E accepts \in BOOLEAN : WriteOnAgain(accepts)
    \/ \E e \in Events : NextEvent(e)
    \/ Store
    \/ \E accepts \in BOOLEAN : Show(accepts)
    \/ \E accepts \in BOOLEAN : LeaveAlternateScreen(accepts)
    \/ \E accepts \in BOOLEAN : LastFlush(accepts)
    \/ \E dims \in TermSizes : Resize(dims)

Spec == Init /\ [][Next]_vars

\* C4: at every write_on call of the loop the offset is at most
\* max(0, content_height - viewport height) of the frame's own area and text.
C4_OffsetReclampedEachFrame ==
    pc \in {"write1", "write2"} => view_scroll <= LargestOffset

\* C10: whenever run_app returns, normally or with an I/O error, after the
\* alternate screen was entered and the cursor hidden, the cursor is shown
\* again and the alternate screen is left.
C10_TerminalRestoredOnReturn ==
    (pc = "returned" /\ session /\ result \in {"ok", "err"}) =>
        (~cursor_hidden /\ ~alt_screen)

\* the four navigation commands
Navigation == {"Up", "Down", "PageUp", "PageDown"}

\* C11: once events.next() has given anything but one of the four navigation
\* keys (another key, an event that is no key, the end of the stream) the
\* loop is broken: no write_on completes after it.
C11_NonNavigationBreaksLoop ==
    (last.event \notin Navigation \cup {"none"}) => pc \notin {"flush", "write2", "event"}

\* C12: when the loop blocks on events.next(), every write_on of the frame
\* has been followed by a flush, and the frame has had exactly one flush.
C12_FlushedBeforeWaiting ==
    pc = "event" => (~last.unflushed /\ last.flushes = 1)

\* C13: the offset the view has once a navigation event is handled is the
\* offset the rebuilt view of the next frame is rendered with: no event or
\* rebuild resets it or drops a step.
C13_OffsetSurvivesRebuild ==
    /\ pc \in {"write1", "flush", "write2", "event"} => view_scroll = last.offset
    /\ pc = "loop" => scroll = last.offset

\* a frame rendered at offset 2 after PageDown, on a terminal resized since
C13_Witness ==
    /\ pc = "flush"
    /\ last.event = "PageDown"
    /\ last.offset >= 2
    /\ view_scroll = last.offset
    /\ last.rendered[1] = last.offset
    /\ term[2] # area.height + 2

\* C14: write_on leaves the offset as it was, for the first and for the
\* second call of a frame and when the call fails, and a successful call
\* renders the lines [offset, offset + viewport height).
C14_WriteOnKeepsOffset ==
    /\ pc \in {"flush", "write2", "event"} => view_scroll = last.before
    /\ (pc = "returned" /\ last.rejected \in {"write1", "write2"}) => view_scroll = last.before
    /\ pc \in {"flush", "event"} =>
           last.rendered = <<view_scroll, view_scroll + area.height>>

\* the second write_on of a frame, at offset 1
C14_Witness ==
    /\ pc = "event"
    /\ view_scroll = 1
    /\ last.before = 1
    /\ area.height > 0
    /\ last.rendered = <<1, 1 + area.height>>

\* the positions of run_app where a call on the terminal can fail
IoCalls == {"enter", "raw", "hide", "write1", "flush", "write2", "show", "leave", "last_flush"}

\* C17: a call the writer rejects makes run_app return the error at once, with
\* no later step of the frame; and an error is only ever returned from such a
\* call, never from scrolling, building the area or handling an event.
C17_IoErrorAbortsFrame ==
    /\ last.rejected # "none" => (pc = "returned" /\ result = "err")
    /\ result = "err" => (pc = "returned" /\ last.rejected \in IoCalls)
    /\ pc \in {"store", "loop"} => result = "none"

\* the second write_on of a frame was rejected after a scroll
C17_Witness ==
    /\ pc = "returned"
    /\ result = "err"
    /\ last.rejected = "write2"
    /\ last.event = "Down"
    /\ ~last.unflushed

\* C20: the wrap width given to the formatter, the padded area's width - 1,
\* never underflows: run_app does not panic on it and the width is not a
\* wrapped-around number above the area's width.
C20_WrapWidthNeverUnderflows ==
    /\ result # "panic"
    /\ last.wrap <= area.width

-----------------------------------------------------------------------------
(* SpecArea: areas padded                                                  *)

AreaWidths == {0, 2, 3, 80}
AreaHeights == {0, 2, 24}
Paddings == {0, 1, 5}

InitArea ==
    /\ pc = "area"
    /\ term = <<0, 0>>
    /\ overflow_checks = FALSE
    /\ \E width \in AreaWidths, height \in AreaHeights :
           area = full_screen(<<width, height>>)
    /\ content_height = 0
    /\ view_scroll = 0
    /\ scroll = 0
    /\ alt_screen = FALSE
    /\ cursor_hidden = FALSE
    /\ raw_mode = FALSE
    /\ session = FALSE
    /\ result = "none"
    /\ StylesIdle
    /\ WritersIdle
    /\ last = [op |-> "full_screen", dx |-> 0, dy |-> 0, before |-> area, pads |-> 0]

\* area.pad(dx, dy)
Pad(dx, dy) ==
    /\ pc = "area"
    /\ last.pads < MaxPads
    /\ area' = pad(area, dx, dy)
    /\ last' = [op |-> "pad", dx |-> dx, dy |-> dy, before |-> area, pads |-> last.pads + 1]
    /\ UNCHANGED <<pc, term, overflow_checks, content_height, view_scroll, scroll, alt_screen,
                   cursor_hidden, raw_mode, session, result, styles, orig, ops, sc, w, f>>

NextArea == \E dx \in Paddings, dy \in Paddings : Pad(dx, dy)

SpecArea == InitArea /\ [][NextArea]_vars

\* C15: pad(horizontal, vertical) moves left and top in by the amounts and
\* takes twice the amounts off width and height, stopping at zero:
\* {0,0,80,24}.pad(1,1) is {1,1,78,22}, {0,0,2,2}.pad(5,5) has no width
\* and no height.
C15_PadShrinksAndSaturates ==
    (pc = "area" /\ last.op = "pad") =>
        LET b == last.before
        IN  /\ area.left = b.left + last.dx
            /\ area.top = b.top + last.dy
            /\ area.width = (IF b.width >= 2 * last.dx THEN b.width - 2 * last.dx ELSE 0)
            /\ area.height = (IF b.height >= 2 * last.dy THEN b.height - 2 * last.dy ELSE 0)
            /\ (b = [left |-> 0, top |-> 0, width |-> 80, height |-> 24]
                /\ last.dx = 1 /\ last.dy = 1) =>
                   area = [left |-> 1, top |-> 1, width |-> 78, height |-> 22]
            /\ (b.width = 2 /\ b.height = 2 /\ last.dx = 5 /\ last.dy = 5) =>
                   (area.width = 0 /\ area.height = 0)

\* {0,0,2,2}.pad(5,5): an over-padded area
C15_Witness ==
    /\ pc = "area"
    /\ last.op = "pad"
    /\ last.before = [left |-> 0, top |-> 0, width |-> 2, height |-> 2]
    /\ last.dx = 5
    /\ last.dy = 5
    /\ area = [left |-> 5, top |-> 5, width |-> 0, height |-> 0]

-----------------------------------------------------------------------------
(* SpecQueue: a CompoundStyle queueing its colours on a writer             *)

InitQueue ==
    /\ AppIdle
    /\ \E s \in StyleSet : styles = [n \in StyleNames |-> IF n = "A" THEN s ELSE default]
    /\ orig = styles
    /\ ops = <<>>
    /\ WritersIdle
    /\ last = [op |-> "new", before |-> <<>>, res |-> "Ok"]

\* styles["A"].queue_fg(w)
QueueFg(accepts) ==
    /\ pc = "idle"
    /\ Len(w) < MaxWrites
    /\ LET r == queue_fg(styles["A"], w, accepts)
       IN  /\ w' = r.out
           /\ last' = [op |-> "queue_fg", before |-> w, res |-> r.res]
    /\ UNCHANGED <<appVars, styleVars, sc, f>>

\* styles["A"].queue_bg(w)
QueueBg(accepts) ==
    /\ pc = "idle"
    /\ Len(w) < MaxWrites
    /\ LET r == queue_bg(styles["A"], w, accepts)
       IN  /\ w' = r.out
           /\ last' = [op |-> "queue_bg", before |-> w, res |-> r.res]
    /\ UNCHANGED <<appVars, styleVars, sc, f>>

NextQueue ==
    \/ \E accepts \in BOOLEAN : QueueFg(accepts)
    \/ \E accepts \in BOOLEAN : QueueBg(accepts)

SpecQueue == InitQueue /\ [][NextQueue]_vars

\* C16: queue_fg (queue_bg) puts exactly one SetForegroundColor
\* (SetBackgroundColor) command of the style's colour on the writer when the
\* style has that colour, and puts nothing on the writer and returns Ok when
\* the style has no such colour.
C16_QueueColourOnlyWhenPresent ==
    /\ last.op = "queue_fg" =>
           IF styles["A"].foreground_color # None
           THEN /\ last.res = "Ok" =>
                       w = Append(last.before, SetForegroundColor(styles["A"].foreground_color))
                /\ last.res = "Err" => w = last.before
           ELSE w = last.before /\ last.res = "Ok"
    /\ last.op = "queue_bg" =>
           IF styles["A"].background_color # None
           THEN /\ last.res = "Ok" =>
                       w = Append(last.before, SetBackgroundColor(styles["A"].background_color))
                /\ last.res = "Err" => w = last.before
           ELSE w = last.before /\ last.res = "Ok"

\* a style with a background and no foreground: queue_bg queued one command,
\* queue_fg after it queued none
C16_Witness ==
    /\ last.op = "queue_fg"
    /\ styles["A"].foreground_color = None
    /\ styles["A"].background_color = "Red"
    /\ last.res = "Ok"
    /\ last.before = <<SetBackgroundColor("Red")>>
    /\ w = last.before

-----------------------------------------------------------------------------
(* SpecSet: a CompoundStyle and a StyledChar under their setters           *)

\* what a setter was called on: the call, its arguments, and the style and
\* the StyledChar as they were before it
Set(op, args) == [op |-> op, args |-> args, before |-> styles["A"], sc_before |-> sc]

InitSet ==
    /\ AppIdle
    /\ \E s \in StyleSet : styles = [n \in StyleNames |-> IF n = "A" THEN s ELSE default]
    /\ orig = styles
    /\ ops = <<>>
    /\ \E s \in CharStyles, c \in Chars : sc = StyledChar_new(s, c)
    /\ w = <<>>
    /\ f = <<>>
    /\ last = Set("new", <<>>)

\* styles["A"].set_fg(color)
CompoundSetFg(color) ==
    /\ pc = "idle"
    /\ styles' = [styles EXCEPT !["A"] = set_fg(@, color)]
    /\ last' = Set("set_fg", <<color>>)
    /\ UNCHANGED <<appVars, orig, ops, sc, w, f>>

\* styles["A"].set_bg(color)
CompoundSetBg(color) ==
    /\ pc = "idle"
    /\ styles' = [styles EXCEPT !["A"] = set_bg(@, color)]
    /\ last' = Set("set_bg", <<color>>)
    /\ UNCHANGED <<appVars, orig, ops, sc, w, f>>

\* styles["A"].set_fgbg(fg, bg)
CompoundSetFgBg(fg, bg) ==
    /\ pc = "idle"
    /\ styles' = [styles EXCEPT !["A"] = set_fgbg(@, fg, bg)]
    /\ last' = Set("set_fgbg", <<fg, bg>>)
    /\ UNCHANGED <<appVars, orig, ops, sc, w, f>>

\* styles["A"].add_attr(attr)
CompoundAddAttr(attr) ==
    /\ pc = "idle"
    /\ Len(styles["A"].attributes) < MaxAttrs
    /\ styles' = [styles EXCEPT !["A"] = add_attr(@, attr)]
    /\ last' = Set("add_attr", <<attr>>)
    /\ UNCHANGED <<appVars, orig, ops, sc, w, f>>

\* sc.set_char(nude_char)
CharSetChar(nude_char) ==
    /\ pc = "idle"
    /\ sc' = set_char(sc, nude_char)
    /\ last' = Set("StyledChar::set_char", <<nude_char>>)
    /\ UNCHANGED <<appVars, styleVars, w, f>>

\* sc.set_fg(color)
CharSetFg(color) ==
    /\ pc = "idle"
    /\ sc' = StyledChar_set_fg(sc, color)
    /\ last' = Set("StyledChar::set_fg", <<color>>)
    /\ UNCHANGED <<appVars, styleVars, w, f>>

NextSet ==
    \/ \E color \in Colors : CompoundSetFg(color)
    \/ \E color \in Colors : CompoundSetBg(color)
    \/ \E fg \in Colors, bg \in Colors : CompoundSetFgBg(fg, bg)
    \/ \E attr \in Attributes : CompoundAddAttr(attr)
    \/ \E c \in Chars : CharSetChar(c)
    \/ \E color \in Colors : CharSetFg(color)

SpecSet == InitSet /\ [][NextSet]_vars

\* C19: each setter changes only what it names and sets it whatever it held:
\* set_fg keeps background and attributes, set_bg keeps foreground and
\* attributes, set_fgbg keeps the attributes, add_attr keeps both colours
\* and the attributes already there; StyledChar's set_char keeps colours and
\* attributes, its set_fg keeps the character, the background and the
\* attributes.
C19_SettersChangeOnlyTheirSlot ==
    LET a == styles["A"]
        b == last.before
        c == sc.compound_style
        d == last.sc_before.compound_style
    IN  /\ last.op = "set_fg" =>
               /\ a.foreground_color = last.args[1]
               /\ a.background_color = b.background_color
               /\ a.attributes = b.attributes
        /\ last.op = "set_bg" =>
               /\ a.background_color = last.args[1]
               /\ a.foreground_color = b.foreground_color
               /\ a.attributes = b.attributes
        /\ last.op = "set_fgbg" =>
               /\ a.foreground_color = last.args[1]
               /\ a.background_color = last.args[2]
               /\ a.attributes = b.attributes
        /\ last.op = "add_attr" =>
               /\ a.foreground_color = b.foreground_color
               /\ a.background_color = b.background_color
               /\ a.attributes = Append(b.attributes, last.args[1])
        /\ last.op = "StyledChar::set_char" =>
               /\ sc.nude_char = last.args[1]
               /\ c = d
        /\ last.op = "StyledChar::set_fg" =>
               /\ c.foreground_color = last.args[1]
               /\ sc.nude_char = last.sc_before.nude_char
               /\ c.background_color = d.background_color
               /\ c.attributes = d.attributes
        /\ last.op \in {"set_fg", "set_bg", "set_fgbg", "add_attr"} => sc = last.sc_before
        /\ last.op \in {"StyledChar::set_char", "StyledChar::set_fg"} => a = b

\* set_fg(Blue) on a red-on-red bold style: blue on red, still bold
C19_Witness ==
    /\ last.op = "set_fg"
    /\ last.args = <<"Blue">>
    /\ last.before = new("Red", "Red", <<"Bold">>)
    /\ styles["A"] = new("Blue", "Red", <<"Bold">>)

====
